---------------------------- MODULE Spec2Model ----------------------------
(***************************************************************************)
(* A model of lovely-injector's core stack protocol (lovely-core sys.rs)   *)
(* and of the Android bootstrap (lovely-android lib.rs).                   *)
(*                                                                         *)
(*  - the process-wide OnceLocks LUA and RUNTIME are sequences of length   *)
(*    at most one (empty = unset);                                         *)
(*  - the interpreter is an operand stack, the tables _G, package and      *)
(*    package.preload, and the position (pc) of the one engine thread in   *)
(*    load_module, lua_identity_closure or override_print;                 *)
(*  - each JNI_OnLoad invocation is a process with its own position.       *)
(*                                                                         *)
(* Strings are sequences of bytes.  A panic in any of the modelled         *)
(* routines ends the process (they run below an extern "C" frame).         *)
(***************************************************************************)
EXTENDS Integers, Sequences, FiniteSets, TLC

VARIABLES
    lib,            \* the host's engine library: loadable, and what it exports
    LUA,            \* OnceLock<LuaLib>
    RUNTIME,        \* OnceLock<Lovely>
    bpc,            \* position of each JNI_OnLoad invocation
    built,          \* each invocation's LuaLib built by from_library, not yet set
    hooked,         \* the compile entry point is patched
    hookInstalls,   \* number of successful dobby_rs::hook calls
    hostCalls,      \* host compile calls so far, each "original" or "replacement"
    afterDone,      \* history: the invocation began after another had returned
    trampoline,     \* the trampoline pointers the process holds
    initResult,     \* history: what each invocation's init_lua_library returned
    heap,           \* the tables _G, package, preload
    stack,          \* operand stack of the running frame
    saved,          \* the caller's stack while a native closure's frame runs
    curUp,          \* upvalues of the running native closure
    pc,             \* position of the engine thread
    loc,            \* locals of the running routine
    log,            \* lines emitted to the log sink during the running host call
    retvals,        \* values the last native closure returned to the host
    crashed,        \* the process has aborted
    entryStack,     \* history: the stack when the running routine was entered
    entryHeap,      \* history: the tables when the running routine was entered
    ran,            \* history: chunk executions during the running host call
    chunkOut,       \* history: per name, every value its last completed chunk returned
    invCount,       \* history: invocations of preload[k] since it was registered
    compileLog,     \* history: compile calls made during the running host call
    preload0,       \* history: package.preload before the first load_module
    lastOkSrc       \* history: per name, the source of the last call that succeeded

bootVars == <<lib, LUA, RUNTIME, bpc, built, hooked, hookInstalls, hostCalls, afterDone,
              trampoline, initResult>>
luaVars == <<heap, stack, saved, curUp, pc, loc, log, retvals>>
histVars == <<entryStack, entryHeap, ran, chunkOut, invCount, compileLog, preload0,
              lastOkSrc>>
vars == <<bootVars, luaVars, histVars, crashed>>

---------------------------------------------------------------------------
(* Bounds *)
MaxBase == 1        \* values the host has on the stack below a call
MaxArgs == 3        \* arguments of one print call
MaxInvoke == 2      \* invocations of one registered closure
MaxHostCalls == 2   \* host compile calls during bootstrap
NBoot == 2          \* JNI_OnLoad invocations in one process
MaxReenter == 2     \* nested compile calls the native stack has room for

(* Program constants *)
LUA_GLOBALSINDEX == -10002
LUA_ERRRUN == 2

---------------------------------------------------------------------------
(* Byte strings *)
K_package == <<112, 97, 99, 107, 97, 103, 101>>
K_preload == <<112, 114, 101, 108, 111, 97, 100>>
K_tostring == <<116, 111, 115, 116, 114, 105, 110, 103>>
NameA == <<109, 111, 100, 95, 97>>                      \* "mod_a"
NameB == <<109, 111, 100, 95, 98>>                      \* "mod_b"
NameNul == <<109, 0, 97>>                               \* "m\0a"
SrcRet1 == <<114, 101, 116, 117, 114, 110, 32, 49>>     \* "return 1"
SrcRet2 == <<114, 101, 116, 117, 114, 110, 32, 50>>     \* "return 2"
SrcMulti == <<114, 101, 116, 117, 114, 110, 32, 49, 44, 50>>  \* "return 1,2"
SrcEmpty == <<>>                                        \* ""
SrcSyntax == <<40, 40, 40>>                             \* "((("
SrcError == <<101, 114, 114, 111, 114, 40, 41>>         \* "error()"
SrcNul == <<114, 0>>                                    \* "r\0"
MsgSyntax == <<115, 121, 110>>                          \* compile error text
MsgRuntime == <<114, 117, 110>>                         \* runtime error text
MsgCall == <<99, 97, 108, 108>>                         \* "attempt to call" text
Tab == <<9>>
LogPrefix == <<91, 71, 93, 32>>                         \* "[G] "
At == <<64>>                                            \* "@"

Names == {NameA, NameB}
Keys == {K_package, K_preload, K_tostring} \cup Names
Sources == {SrcRet1, SrcRet2, SrcMulti, SrcEmpty, SrcSyntax, SrcError, SrcNul}

---------------------------------------------------------------------------
(* Lua values *)
Nil == [t |-> "nil"]
Num(n) == [t |-> "number", n |-> n]
Bool(b) == [t |-> "boolean", b |-> b]
Str(s) == [t |-> "string", s |-> s]
Table(id) == [t |-> "table", id |-> id]
\* an object whose __tostring metamethod returns r
Obj(r) == [t |-> "userdata", meta |-> <<r>>]
\* a Lua function compiled from buf under display name nm
Chunk(buf, nm) == [t |-> "function", chunk |-> buf, chunkname |-> nm]
\* a loader the host registered itself
HostLoader == [t |-> "function", host |-> "loader"]
\* the engine's builtin tostring
FTostring == [t |-> "function", builtin |-> "tostring"]
\* a native closure: function f with upvalues up
CClosure(f, up) == [t |-> "function", f |-> f, up |-> up]

IsTable(v) == v.t = "table"
IsString(v) == v.t = "string"
IsNumber(v) == v.t = "number"
IsChunk(v) == v.t = "function" /\ "chunk" \in DOMAIN v
IsCClosure(v) == v.t = "function" /\ "f" \in DOMAIN v
IsBuiltin(v) == v.t = "function" /\ "builtin" \in DOMAIN v


---------------------------------------------------------------------------
(* The engine: what the host's compile entry point and a compiled chunk do *)

IsDigit(b) == b \in 48..57

\* buf is a comma-separated list of single digits
RECURSIVE IsDigitList(_)
IsDigitList(buf) ==
    /\ Len(buf) >= 1
    /\ IsDigit(buf[1])
    /\ \/ Len(buf) = 1
       \/ Len(buf) >= 3 /\ buf[2] = 44 /\ IsDigitList(SubSeq(buf, 3, Len(buf)))

RECURSIVE DigitListValues(_)
DigitListValues(buf) ==
    IF Len(buf) = 0 THEN <<>>
    ELSE <<Num(buf[1] - 48)>> \o
         (IF Len(buf) >= 3 THEN DigitListValues(SubSeq(buf, 3, Len(buf))) ELSE <<>>)

ReturnKw == <<114, 101, 116, 117, 114, 110, 32>>        \* "return "
IsReturnStmt(buf) ==
    /\ Len(buf) > 7
    /\ SubSeq(buf, 1, 7) = ReturnKw
    /\ IsDigitList(SubSeq(buf, 8, Len(buf)))

\* the source compiles
Compiles(buf) == buf = <<>> \/ buf = SrcError \/ IsReturnStmt(buf)
\* running the compiled chunk raises an error
RunErrors(buf) == buf = SrcError
\* the values the chunk returns when it runs without error
RunValues(buf) ==
    IF IsReturnStmt(buf) THEN DigitListValues(SubSeq(buf, 8, Len(buf))) ELSE <<>>

\* the engine's luaL_loadbufferx: push the compiled chunk, or the error message
luaL_loadbufferx(stk, buf, sz, nm) ==
    IF Compiles(SubSeq(buf, 1, sz))
    THEN [stack |-> Append(stk, Chunk(SubSeq(buf, 1, sz), nm)), status |-> 0]
    ELSE [stack |-> Append(stk, Str(MsgSyntax)), status |-> 3]

---------------------------------------------------------------------------
(* The stack primitives the generated wrappers forward to *)

RECURSIVE Nils(_)
Nils(n) == IF n <= 0 THEN <<>> ELSE <<Nil>> \o Nils(n - 1)

\* first n values of vs, padded with nil
Adjust(vs, n) ==
    IF Len(vs) >= n THEN SubSeq(vs, 1, n) ELSE vs \o Nils(n - Len(vs))

\* the value an acceptable index or pseudo-index names
Index2Value(stk, up, idx) ==
    IF idx > 0 THEN (IF idx <= Len(stk) THEN stk[idx] ELSE Nil)
    ELSE IF idx = LUA_GLOBALSINDEX THEN Table("_G")
    ELSE IF idx < LUA_GLOBALSINDEX
         THEN (IF LUA_GLOBALSINDEX - idx <= Len(up) THEN up[LUA_GLOBALSINDEX - idx] ELSE Nil)
    ELSE (IF Len(stk) + idx + 1 >= 1 THEN stk[Len(stk) + idx + 1] ELSE Nil)

lua_gettop(stk) == Len(stk)

lua_settop(stk, idx) ==
    IF idx >= 0 THEN Adjust(stk, idx)
    ELSE SubSeq(stk, 1, Len(stk) + idx + 1)

lua_pushvalue(stk, up, idx) == Append(stk, Index2Value(stk, up, idx))

\* t[k] for the table value t (a raw read: the tables carry no metatables)
TableGet(h, t, k) == IF k \in DOMAIN h[t.id] THEN h[t.id][k] ELSE Nil

lua_getfield(h, stk, up, idx, k) ==
    Append(stk, TableGet(h, Index2Value(stk, up, idx), k))

\* t[k] = top of stack, which is popped
lua_setfield(h, stk, up, idx, k) ==
    LET t == Index2Value(stk, up, idx)
    IN  [heap |-> [h EXCEPT ![t.id] = (k :> stk[Len(stk)]) @@ h[t.id]],
         stack |-> SubSeq(stk, 1, Len(stk) - 1)]

\* pop n values and push the native closure f that holds them as upvalues
lua_pushcclosure(stk, f, n) ==
    Append(SubSeq(stk, 1, Len(stk) - n),
           CClosure(f, SubSeq(stk, Len(stk) - n + 1, Len(stk))))

\* protected call: the callee lies below its nargs arguments; the results are
\* adjusted to nresults, an error leaves its message instead (errfunc = 0:
\* no message handler)
lua_pcall(stk, nargs, nresults, errfunc) ==
    LET fn == stk[Len(stk) - nargs]
        below == SubSeq(stk, 1, Len(stk) - nargs - 1)
    IN  IF ~IsChunk(fn)
        THEN [stack |-> Append(below, Str(MsgCall)), status |-> LUA_ERRRUN,
              runs |-> 0, out |-> <<>>]
        ELSE IF RunErrors(fn.chunk)
        THEN [stack |-> Append(below, Str(MsgRuntime)), status |-> LUA_ERRRUN,
              runs |-> 1, out |-> <<>>]
        ELSE [stack |-> below \o Adjust(RunValues(fn.chunk), nresults), status |-> 0,
              runs |-> 1, out |-> RunValues(fn.chunk)]


---------------------------------------------------------------------------
(* Stringification: the engine's tostring and lua_tolstring, Rust's lossy
   UTF-8 decoding and the tab join *)

RECURSIVE Digits(_)
Digits(n) == IF n < 10 THEN <<48 + n>> ELSE Digits(n \div 10) \o <<48 + (n % 10)>>

\* "%.14g" of an integral number
NumberBytes(n) == IF n < 0 THEN <<45>> \o Digits(-n) ELSE Digits(n)

\* the builtin tostring: a __tostring metamethod's result is returned as it is
Tostring(v) ==
    IF v.t = "userdata" THEN v.meta[1]
    ELSE IF v.t = "string" THEN v
    ELSE IF v.t = "number" THEN Str(NumberBytes(v.n))
    ELSE IF v.t = "nil" THEN Str(<<110, 105, 108>>)
    ELSE IF v.t = "boolean"
         THEN (IF v.b THEN Str(<<116, 114, 117, 101>>) ELSE Str(<<102, 97, 108, 115, 101>>))
    ELSE IF v.t = "table" THEN Str(<<116, 97, 98, 108, 101, 58, 32, 48>>)
    ELSE Str(<<102, 117, 110, 99, 116, 105, 111, 110, 58, 32, 48>>)

\* unprotected call of the function below its nargs arguments, the results
\* adjusted to nresults; the only function called this way is the builtin
\* tostring, which converts its first argument
lua_call(stk, nargs, nresults) ==
    LET fn == stk[Len(stk) - nargs]
        args == SubSeq(stk, Len(stk) - nargs + 1, Len(stk))
        below == SubSeq(stk, 1, Len(stk) - nargs - 1)
    IN  IF IsBuiltin(fn) /\ nargs >= 1
        THEN [ok |-> TRUE, stack |-> below \o Adjust(<<Tostring(args[1])>>, nresults)]
        ELSE [ok |-> FALSE, stack |-> stk]

\* the bytes of the string at idx, a number being converted in place; a null
\* pointer and length 0 for any other value
lua_tolstring(stk, up, idx) ==
    LET v == Index2Value(stk, up, idx)
        at == IF idx > 0 THEN idx ELSE Len(stk) + idx + 1
    IN  IF IsString(v) THEN [null |-> FALSE, bytes |-> v.s, stack |-> stk]
        ELSE IF IsNumber(v)
        THEN [null |-> FALSE, bytes |-> NumberBytes(v.n),
              stack |-> [stk EXCEPT ![at] = Str(NumberBytes(v.n))]]
        ELSE [null |-> TRUE, bytes |-> <<>>, stack |-> stk]

IsCont(b) == b \in 128..191
ReplacementChar == <<239, 191, 189>>                    \* U+FFFD in UTF-8

\* String::from_utf8_lossy: valid sequences are kept, every maximal invalid
\* part becomes one U+FFFD
RECURSIVE Utf8Lossy(_, _)
Utf8Lossy(b, i) ==
    IF i > Len(b) THEN <<>>
    ELSE LET c == b[i]
             c1 == IF i + 1 <= Len(b) THEN b[i + 1] ELSE 0
             c2 == IF i + 2 <= Len(b) THEN b[i + 2] ELSE 0
             c3 == IF i + 3 <= Len(b) THEN b[i + 3] ELSE 0
             second3 == \/ c = 224 /\ c1 \in 160..191
                        \/ c \in 225..236 /\ IsCont(c1)
                        \/ c = 237 /\ c1 \in 128..159
                        \/ c \in 238..239 /\ IsCont(c1)
             second4 == \/ c = 240 /\ c1 \in 144..191
                        \/ c \in 241..243 /\ IsCont(c1)
                        \/ c = 244 /\ c1 \in 128..143
         IN  IF c < 128 THEN <<c>> \o Utf8Lossy(b, i + 1)
             ELSE IF c \in 194..223
             THEN (IF IsCont(c1) THEN <<c, c1>> \o Utf8Lossy(b, i + 2)
                   ELSE ReplacementChar \o Utf8Lossy(b, i + 1))
             ELSE IF c \in 224..239
             THEN (IF ~second3 THEN ReplacementChar \o Utf8Lossy(b, i + 1)
                   ELSE IF ~IsCont(c2) THEN ReplacementChar \o Utf8Lossy(b, i + 2)
                   ELSE <<c, c1, c2>> \o Utf8Lossy(b, i + 3))
             ELSE IF c \in 240..244
             THEN (IF ~second4 THEN ReplacementChar \o Utf8Lossy(b, i + 1)
                   ELSE IF ~IsCont(c2) THEN ReplacementChar \o Utf8Lossy(b, i + 2)
                   ELSE IF ~IsCont(c3) THEN ReplacementChar \o Utf8Lossy(b, i + 3)
                   ELSE <<c, c1, c2, c3>> \o Utf8Lossy(b, i + 4))
             ELSE ReplacementChar \o Utf8Lossy(b, i + 1)

from_utf8_lossy(b) == Utf8Lossy(b, 1)

\* itertools join("\t")
RECURSIVE JoinTab(_)
JoinTab(parts) ==
    IF Len(parts) = 0 THEN <<>>
    ELSE IF Len(parts) = 1 THEN parts[1]
    ELSE parts[1] \o Tab \o JoinTab(Tail(parts))

---------------------------------------------------------------------------
(* Shared pieces of the actions *)

Range(f) == {f[x] : x \in DOMAIN f}

NoLoc == [name |-> <<>>, buffer |-> <<>>, p_name |-> <<>>, buf_len |-> 0,
          stack_top |-> 0, field_index |-> 0, lua_pcall_return |-> 0,
          argc |-> 0, i |-> 0, out |-> <<>>, nret |-> 0]

\* a panic below an extern "C" frame: the process aborts
Panic ==
    /\ crashed' = TRUE
    /\ UNCHANGED <<bootVars, luaVars, histVars>>

\* Generated that calls through without looking at LUA
Generated_unguarded(Call) ==
    /\ ~crashed
    /\ Call
    /\ UNCHANGED crashed

\* a generated wrapper: LUA.get() or panic, then the call through the table
Generated(Call) ==
    /\ ~crashed
    /\ IF LUA = <<>> THEN Panic ELSE (Call /\ UNCHANGED crashed)

\* CString::new(bytes): an interior NUL byte is an error
CStringOk(bytes) == 0 \notin Range(bytes)

---------------------------------------------------------------------------
(* load_module *)

\* the hook replacement calls load_module(state, name, buffer, recall_loadbufferx)
HostLoadModule(name, buffer) ==
    /\ ~crashed
    /\ pc = "idle"
    /\ pc' = "lm_cstr"
    /\ loc' = [NoLoc EXCEPT !.name = name, !.buffer = buffer]
    /\ entryStack' = stack
    /\ entryHeap' = heap
    /\ ran' = 0
    /\ chunkOut' = chunkOut
    /\ compileLog' = <<>>
    /\ UNCHANGED <<bootVars, heap, stack, saved, curUp, log, retvals, invCount, preload0, lastOkSrc, crashed>>

\* LM_cstr that converts the buffer only and takes the name as it is
LM_cstr_bufferOnly ==
    /\ ~crashed
    /\ pc = "lm_cstr"
    /\ IF CStringOk(loc.buffer)
       THEN /\ loc' = [loc EXCEPT !.buf_len = Len(loc.buffer), !.p_name = At \o loc.name]
            /\ pc' = "lm_gettop"
            /\ UNCHANGED <<bootVars, heap, stack, saved, curUp, log, retvals, histVars, crashed>>
       ELSE Panic

\* the two CString::new(..).unwrap() calls and format!("@{name}")
LM_cstr ==
    /\ ~crashed
    /\ pc = "lm_cstr"
    /\ IF CStringOk(loc.buffer) /\ CStringOk(At \o loc.name)
       THEN /\ loc' = [loc EXCEPT !.buf_len = Len(loc.buffer), !.p_name = At \o loc.name]
            /\ pc' = "lm_gettop"
            /\ UNCHANGED <<bootVars, heap, stack, saved, curUp, log, retvals, histVars, crashed>>
       ELSE Panic

LM_gettop ==
    /\ pc = "lm_gettop"
    /\ Generated(/\ loc' = [loc EXCEPT !.stack_top = lua_gettop(stack)]
                 /\ pc' = "lm_getpackage"
                 /\ UNCHANGED <<bootVars, heap, stack, saved, curUp, log, retvals, histVars>>)

LM_getpackage ==
    /\ pc = "lm_getpackage"
    /\ Generated(/\ stack' = lua_getfield(heap, stack, curUp, LUA_GLOBALSINDEX, K_package)
                 /\ pc' = "lm_getpreload"
                 /\ UNCHANGED <<bootVars, heap, saved, curUp, loc, log, retvals, histVars>>)

LM_getpreload ==
    /\ pc = "lm_getpreload"
    /\ Generated(/\ stack' = lua_getfield(heap, stack, curUp, -1, K_preload)
                 /\ pc' = "lm_fieldindex"
                 /\ UNCHANGED <<bootVars, heap, saved, curUp, loc, log, retvals, histVars>>)

LM_fieldindex ==
    /\ pc = "lm_fieldindex"
    /\ Generated(/\ loc' = [loc EXCEPT !.field_index = lua_gettop(stack)]
                 /\ pc' = "lm_loadbuffer"
                 /\ UNCHANGED <<bootVars, heap, stack, saved, curUp, log, retvals, histVars>>)

\* the entry point JNI_OnLoad patches
HookTarget == "luaL_loadbuffer"

\* RecallTarget when the callback calls the entry point that was patched
RecallTarget_patched == HookTarget

\* the entry point recall_loadbufferx calls
RecallTarget == "luaL_loadbufferx"

\* the address the engine library exports for sym
Export(sym) == [sym |-> sym, kind |-> "export"]
\* the relocated original of sym that dobby_rs::hook hands back
Trampoline(sym) == [sym |-> sym, kind |-> "trampoline"]

\* where a call through the pointer p arrives: a patched export leads to the
\* replacement, every other pointer to the engine's own code
Enters(p) ==
    IF p.kind = "export" /\ hooked /\ p.sym = HookTarget THEN "replacement" ELSE "original"

\* the callback: recall_loadbufferx reads LUA and calls the engine's compile
\* function; load_module drops the status it returns
recall_loadbufferx(stk, buff, sz, nm) == luaL_loadbufferx(stk, buff, sz, nm)

\* LM_loadbuffer that hands the compile function the bare name
LM_loadbuffer_bareName ==
    /\ pc = "lm_loadbuffer"
    /\ ~crashed
    /\ IF LUA = <<>> THEN Panic
       ELSE /\ compileLog' = Append(compileLog,
                   [buf |-> loc.buffer, sz |-> loc.buf_len, nm |-> loc.name,
                    mode |-> "null", callee |-> Export(RecallTarget),
                    entered |-> Enters(Export(RecallTarget))])
            /\ stack' = recall_loadbufferx(stack, loc.buffer, loc.buf_len, loc.name).stack
            /\ pc' = "lm_pcall"
            /\ UNCHANGED <<bootVars, heap, saved, curUp, loc, log, retvals,
                           entryStack, entryHeap, ran, chunkOut, invCount, preload0,
                           lastOkSrc, crashed>>

\* lual_loadbufferx(state, buf, buf_len, p_name, null): the callback calls
\* through the export of RecallTarget. Were that the patched entry, the
\* replacement would run load_module on the request again, frame upon frame,
\* until the native stack is used up.
LM_loadbuffer ==
    /\ pc = "lm_loadbuffer"
    /\ ~crashed
    /\ IF LUA = <<>> THEN Panic
       ELSE IF Enters(Export(RecallTarget)) # "original" /\ Len(compileLog) >= MaxReenter
       THEN Panic
       ELSE /\ compileLog' = Append(compileLog,
                   [buf |-> loc.buffer, sz |-> loc.buf_len, nm |-> loc.p_name,
                    mode |-> "null", callee |-> Export(RecallTarget),
                    entered |-> Enters(Export(RecallTarget))])
            /\ IF Enters(Export(RecallTarget)) = "original"
               THEN /\ stack' = recall_loadbufferx(stack, loc.buffer, loc.buf_len,
                                                   loc.p_name).stack
                    /\ pc' = "lm_pcall"
               ELSE /\ stack' = stack
                    /\ pc' = "lm_cstr"
            /\ UNCHANGED <<bootVars, heap, saved, curUp, loc, log, retvals,
                           entryStack, entryHeap, ran, chunkOut, invCount, preload0,
                           lastOkSrc, crashed>>

\* LM_pcall that asks the protected call for two results
LM_pcall_twoResults ==
    /\ pc = "lm_pcall"
    /\ Generated(LET r == lua_pcall(stack, 0, 2, 0) IN
                 /\ stack' = r.stack
                 /\ loc' = [loc EXCEPT !.lua_pcall_return = r.status]
                 /\ ran' = ran + r.runs
                 /\ chunkOut' = IF r.status = 0 THEN [chunkOut EXCEPT ![loc.name] = r.out]
                                            ELSE chunkOut
                 /\ pc' = IF r.status = 0 THEN "lm_pushcclosure" ELSE "lm_settop"
                 /\ UNCHANGED <<bootVars, heap, saved, curUp, log, retvals,
                                entryStack, entryHeap, invCount, preload0, lastOkSrc,
                                compileLog>>)

\* LM_pcall that registers whatever the protected call left, error or not
LM_pcall_ignoresStatus ==
    /\ pc = "lm_pcall"
    /\ Generated(LET r == lua_pcall(stack, 0, 1, 0) IN
                 /\ stack' = r.stack
                 /\ loc' = [loc EXCEPT !.lua_pcall_return = r.status]
                 /\ ran' = ran + r.runs
                 /\ chunkOut' = IF r.status = 0 THEN [chunkOut EXCEPT ![loc.name] = r.out]
                                            ELSE chunkOut
                 /\ pc' = "lm_pushcclosure"
                 /\ UNCHANGED <<bootVars, heap, saved, curUp, log, retvals,
                                entryStack, entryHeap, invCount, preload0, lastOkSrc, compileLog>>)

LM_pcall ==
    /\ pc = "lm_pcall"
    /\ Generated(LET r == lua_pcall(stack, 0, 1, 0) IN
                 /\ stack' = r.stack
                 /\ loc' = [loc EXCEPT !.lua_pcall_return = r.status]
                 /\ ran' = ran + r.runs
                 /\ chunkOut' = IF r.status = 0 THEN [chunkOut EXCEPT ![loc.name] = r.out]
                                            ELSE chunkOut
                 /\ pc' = IF r.status = 0 THEN "lm_pushcclosure" ELSE "lm_settop"
                 /\ UNCHANGED <<bootVars, heap, saved, curUp, log, retvals,
                                entryStack, entryHeap, invCount, preload0, lastOkSrc, compileLog>>)

\* LM_pushcclosure with a closure that captures nothing
LM_pushcclosure_noUpvalue ==
    /\ pc = "lm_pushcclosure"
    /\ Generated(/\ stack' = lua_pushcclosure(stack, "lua_identity_closure", 0)
                 /\ pc' = "lm_setfield"
                 /\ UNCHANGED <<bootVars, heap, saved, curUp, loc, log, retvals, histVars>>)

LM_pushcclosure ==
    /\ pc = "lm_pushcclosure"
    /\ Generated(/\ stack' = lua_pushcclosure(stack, "lua_identity_closure", 1)
                 /\ pc' = "lm_setfield"
                 /\ UNCHANGED <<bootVars, heap, saved, curUp, loc, log, retvals, histVars>>)

\* LM_setfield that keeps a closure an earlier call registered under the name
LM_setfield_keepsFirst ==
    /\ pc = "lm_setfield"
    /\ IF ~CStringOk(loc.name) THEN ~crashed /\ Panic
       ELSE Generated(LET r == lua_setfield(heap, stack, curUp, loc.field_index, loc.name) IN
                      /\ heap' = IF IsCClosure(heap["preload"][loc.name]) THEN heap ELSE r.heap
                      /\ stack' = r.stack
                      /\ invCount' = [invCount EXCEPT ![loc.name] = 0]
                      /\ pc' = "lm_settop"
                      /\ UNCHANGED <<bootVars, saved, curUp, loc, log, retvals,
                                     entryStack, entryHeap, ran, chunkOut, compileLog,
                                     preload0, lastOkSrc>>)

\* LM_setfield that writes through the slot below the preload table
LM_setfield_slotBelow ==
    /\ pc = "lm_setfield"
    /\ IF ~CStringOk(loc.name) THEN ~crashed /\ Panic
       ELSE Generated(LET r == lua_setfield(heap, stack, curUp, loc.field_index - 1,
                                           loc.name) IN
                      /\ heap' = r.heap
                      /\ stack' = r.stack
                      /\ invCount' = [invCount EXCEPT ![loc.name] = 0]
                      /\ pc' = "lm_settop"
                      /\ UNCHANGED <<bootVars, saved, curUp, loc, log, retvals,
                                     entryStack, entryHeap, ran, chunkOut, compileLog,
                                     preload0, lastOkSrc>>)

\* CString::new(name).unwrap(), then lua_setfield(state, field_index, name)
LM_setfield ==
    /\ pc = "lm_setfield"
    /\ IF ~CStringOk(loc.name) THEN ~crashed /\ Panic
       ELSE Generated(LET r == lua_setfield(heap, stack, curUp, loc.field_index, loc.name) IN
                      /\ heap' = r.heap
                      /\ stack' = r.stack
                      /\ invCount' = [invCount EXCEPT ![loc.name] = 0]
                      /\ pc' = "lm_settop"
                      /\ UNCHANGED <<bootVars, saved, curUp, loc, log, retvals,
                                     entryStack, entryHeap, ran, chunkOut, compileLog,
                                     preload0, lastOkSrc>>)

\* LM_settop with the stack cut back to the preload table instead of stack_top
LM_settop_toTable ==
    /\ pc = "lm_settop"
    /\ Generated(/\ stack' = lua_settop(stack, loc.field_index)
                 /\ pc' = "lm_return"
                 /\ UNCHANGED <<bootVars, heap, saved, curUp, loc, log, retvals, histVars>>)

LM_settop ==
    /\ pc = "lm_settop"
    /\ Generated(/\ stack' = lua_settop(stack, loc.stack_top)
                 /\ pc' = "lm_return"
                 /\ UNCHANGED <<bootVars, heap, saved, curUp, loc, log, retvals, histVars>>)

\* load_module returns to its caller
LM_return ==
    /\ ~crashed
    /\ pc = "lm_return"
    /\ pc' = "idle"
    /\ loc' = NoLoc
    /\ entryStack' = stack
    /\ entryHeap' = heap
    /\ ran' = 0
    /\ chunkOut' = chunkOut
    /\ compileLog' = <<>>
    /\ lastOkSrc' = IF Compiles(loc.buffer) /\ ~RunErrors(loc.buffer)
                    THEN [lastOkSrc EXCEPT ![loc.name] = <<loc.buffer>>]
                    ELSE lastOkSrc
    /\ UNCHANGED <<bootVars, heap, stack, saved, curUp, log, retvals, invCount, preload0,
                   crashed>>

---------------------------------------------------------------------------
(* lua_identity_closure *)

\* the host's require(k) calls the loader preload[k] with the module name
HostRequire(k) ==
    /\ ~crashed
    /\ pc = "idle"
    /\ IsCClosure(heap["preload"][k])
    /\ heap["preload"][k].f = "lua_identity_closure"
    /\ invCount[k] < MaxInvoke
    /\ invCount' = [invCount EXCEPT ![k] = @ + 1]
    /\ saved' = stack
    /\ stack' = <<Str(k)>>
    /\ curUp' = heap["preload"][k].up
    /\ loc' = [NoLoc EXCEPT !.name = k]
    /\ retvals' = <<>>
    /\ entryStack' = <<Str(k)>>
    /\ entryHeap' = heap
    /\ ran' = 0
    /\ chunkOut' = chunkOut
    /\ compileLog' = <<>>
    /\ pc' = "ic_pushvalue"
    /\ UNCHANGED <<bootVars, heap, log, preload0, lastOkSrc, crashed>>

\* IC_pushvalue that pushes the globals table instead of the first upvalue
IC_pushvalue_globals ==
    /\ pc = "ic_pushvalue"
    /\ Generated(/\ stack' = lua_pushvalue(stack, curUp, LUA_GLOBALSINDEX)
                 /\ loc' = [loc EXCEPT !.nret = 1]
                 /\ pc' = "ic_return"
                 /\ UNCHANGED <<bootVars, heap, saved, curUp, log, retvals, histVars>>)

IC_pushvalue ==
    /\ pc = "ic_pushvalue"
    /\ Generated(/\ stack' = lua_pushvalue(stack, curUp, LUA_GLOBALSINDEX - 1)
                 /\ loc' = [loc EXCEPT !.nret = 1]
                 /\ pc' = "ic_return"
                 /\ UNCHANGED <<bootVars, heap, saved, curUp, log, retvals, histVars>>)

\* the engine hands the top nret values to the caller and drops the frame
NativeReturn(from, to) ==
    /\ ~crashed
    /\ pc = from
    /\ retvals' = SubSeq(stack, Len(stack) - loc.nret + 1, Len(stack))
    /\ stack' = saved
    /\ saved' = <<>>
    /\ curUp' = <<>>
    /\ pc' = to
    /\ UNCHANGED <<bootVars, heap, loc, log, histVars, crashed>>

IC_return == NativeReturn("ic_return", "ic_done")

\* the host goes on after a native closure returned
HostResume ==
    /\ ~crashed
    /\ pc \in {"ic_done", "op_done"}
    /\ pc' = "idle"
    /\ loc' = NoLoc
    /\ retvals' = <<>>
    /\ log' = <<>>
    /\ entryStack' = stack
    /\ entryHeap' = heap
    /\ ran' = 0
    /\ chunkOut' = chunkOut
    /\ compileLog' = <<>>
    /\ UNCHANGED <<bootVars, heap, stack, saved, curUp, invCount, preload0, lastOkSrc, crashed>>


---------------------------------------------------------------------------
(* override_print *)

\* a script calls print(args): the engine runs override_print in a frame that
\* holds the arguments
HostPrint(args) ==
    /\ ~crashed
    /\ pc = "idle"
    /\ saved' = stack
    /\ stack' = args
    /\ curUp' = <<>>
    /\ loc' = NoLoc
    /\ log' = <<>>
    /\ retvals' = <<>>
    /\ entryStack' = args
    /\ entryHeap' = heap
    /\ pc' = "op_gettop"
    /\ UNCHANGED <<bootVars, heap, ran, chunkOut, invCount, preload0, lastOkSrc, compileLog, crashed>>

\* let argc = lua_gettop(state); let mut out = VecDeque::new();
OP_gettop ==
    /\ pc = "op_gettop"
    /\ Generated(/\ loc' = [loc EXCEPT !.argc = lua_gettop(stack), !.out = <<>>, !.i = 1]
                 /\ pc' = "op_loop"
                 /\ UNCHANGED <<bootVars, heap, stack, saved, curUp, log, retvals, histVars>>)

\* for i in 1..=argc
OP_loop ==
    /\ ~crashed
    /\ pc = "op_loop"
    /\ pc' = IF loc.i <= loc.argc THEN "op_getfield" ELSE "op_log"
    /\ UNCHANGED <<bootVars, heap, stack, saved, curUp, loc, log, retvals, histVars, crashed>>

OP_getfield ==
    /\ pc = "op_getfield"
    /\ Generated(/\ stack' = lua_getfield(heap, stack, curUp, LUA_GLOBALSINDEX, K_tostring)
                 /\ pc' = "op_pushvalue"
                 /\ UNCHANGED <<bootVars, heap, saved, curUp, loc, log, retvals, histVars>>)

OP_pushvalue ==
    /\ pc = "op_pushvalue"
    /\ Generated(/\ stack' = lua_pushvalue(stack, curUp, loc.i)
                 /\ pc' = "op_call"
                 /\ UNCHANGED <<bootVars, heap, saved, curUp, loc, log, retvals, histVars>>)

OP_call ==
    /\ pc = "op_call"
    /\ Generated(/\ lua_call(stack, 1, 1).ok      \* _G.tostring is the builtin
                 /\ stack' = lua_call(stack, 1, 1).stack
                 /\ pc' = "op_tolstring"
                 /\ UNCHANGED <<bootVars, heap, saved, curUp, loc, log, retvals, histVars>>)

\* lua_tolstring(state, -1, &mut str_len), slice::from_raw_parts,
\* String::from_utf8_lossy and out.push_back. from_raw_parts of the null
\* pointer lua_tolstring returns for a non-string is undefined behaviour: the
\* build either takes it for the empty slice or aborts on its precondition.
OP_tolstring_pushFront ==
    /\ pc = "op_tolstring"
    /\ ~crashed
    /\ IF LUA = <<>> THEN Panic
       ELSE LET r == lua_tolstring(stack, curUp, -1) IN
            \/ /\ ~r.null
               /\ stack' = r.stack
               /\ loc' = [loc EXCEPT !.out = <<from_utf8_lossy(r.bytes)>> \o @]
               /\ pc' = "op_settop"
               /\ UNCHANGED <<bootVars, heap, saved, curUp, log, retvals, histVars, crashed>>
            \/ /\ r.null
               /\ stack' = r.stack
               /\ loc' = [loc EXCEPT !.out = <<from_utf8_lossy(<<>>)>> \o @]
               /\ pc' = "op_settop"
               /\ UNCHANGED <<bootVars, heap, saved, curUp, log, retvals, histVars, crashed>>
            \/ /\ r.null
               /\ Panic

OP_tolstring ==
    /\ pc = "op_tolstring"
    /\ ~crashed
    /\ IF LUA = <<>> THEN Panic
       ELSE LET r == lua_tolstring(stack, curUp, -1) IN
            \/ /\ ~r.null
               /\ stack' = r.stack
               /\ loc' = [loc EXCEPT !.out = Append(@, from_utf8_lossy(r.bytes))]
               /\ pc' = "op_settop"
               /\ UNCHANGED <<bootVars, heap, saved, curUp, log, retvals, histVars, crashed>>
            \/ /\ r.null
               /\ stack' = r.stack
               /\ loc' = [loc EXCEPT !.out = Append(@, from_utf8_lossy(<<>>))]
               /\ pc' = "op_settop"
               /\ UNCHANGED <<bootVars, heap, saved, curUp, log, retvals, histVars, crashed>>
            \/ /\ r.null
               /\ Panic

\* OP_settop that leaves the conversion result on the stack
OP_settop_keepsResult ==
    /\ pc = "op_settop"
    /\ Generated(/\ stack' = lua_settop(stack, -1)
                 /\ loc' = [loc EXCEPT !.i = @ + 1]
                 /\ pc' = "op_loop"
                 /\ UNCHANGED <<bootVars, heap, saved, curUp, log, retvals, histVars>>)

\* lua_settop(state, -2), and the loop goes on with the next i
OP_settop ==
    /\ pc = "op_settop"
    /\ Generated(/\ stack' = lua_settop(stack, -2)
                 /\ loc' = [loc EXCEPT !.i = @ + 1]
                 /\ pc' = "op_loop"
                 /\ UNCHANGED <<bootVars, heap, saved, curUp, log, retvals, histVars>>)

\* let msg = out.into_iter().join("\t"); info!("[G] {msg}"); 0
OP_log ==
    /\ ~crashed
    /\ pc = "op_log"
    /\ log' = Append(log, LogPrefix \o JoinTab(loc.out))
    /\ loc' = [loc EXCEPT !.nret = 0]
    /\ pc' = "op_return"
    /\ UNCHANGED <<bootVars, heap, stack, saved, curUp, retvals, histVars, crashed>>

OP_return == NativeReturn("op_return", "op_done")

---------------------------------------------------------------------------
(* The symbol table *)

\* the fields of LuaLib
Required == {"lua_call", "lua_pcall", "lua_getfield", "lua_setfield", "lua_gettop",
             "lua_settop", "lua_pushvalue", "lua_pushcclosure", "lua_tolstring",
             "lua_toboolean", "lua_topointer", "lua_type", "lua_typename",
             "lua_isstring"}

\* from_library that leaves out the symbols the library lacks
from_library_partial(library) ==
    [ok |-> TRUE, tbl |-> [s \in Required \cap library.exports |-> s]]

\* LuaLib::from_library: every library.get(..).unwrap() must succeed
from_library(library) ==
    IF Required \subseteq library.exports
    THEN [ok |-> TRUE, tbl |-> [s \in Required |-> s]]
    ELSE [ok |-> FALSE, tbl |-> [s \in {} |-> s]]

\* OnceLock::set: stores v when the cell is empty, reports an error otherwise
OnceSet(cell, v) ==
    IF cell = <<>> THEN [cell |-> <<v>>, ok |-> TRUE] ELSE [cell |-> cell, ok |-> FALSE]

Boots == 1..NBoot

\* a panic of invocation b at position at
BootPanic(b, at) ==
    /\ crashed' = TRUE
    /\ bpc' = [bpc EXCEPT ![b] = at]

---------------------------------------------------------------------------
(* JNI_OnLoad *)

\* the panic hook, the JNI environment and the configuration
JNI_start(b) ==
    /\ ~crashed
    /\ bpc[b] = "start"
    /\ bpc' = [bpc EXCEPT ![b] = "init_load"]
    /\ afterDone' = [afterDone EXCEPT ![b] = \E a \in Boots : bpc[a] = "done"]
    /\ UNCHANGED <<lib, LUA, RUNTIME, built, hooked, hookInstalls, hostCalls,
                   trampoline, initResult, luaVars, histVars, crashed>>

\* Lovely::init, which JNI_OnLoad calls first, resolves the symbol table
\* through init_lua_library and goes on to build the runtime whether that
\* returned Ok or Err; where JNI_OnLoad is after Lovely::init returned
Lovely_init_returns(ok) == "set_runtime"

\* init_lua_library up to its LUA.set: Library::new(..)? returns the Err of a
\* library that cannot be loaded, and a missing symbol panics inside
\* LuaLib::from_library
InitLoad(b) ==
    /\ ~crashed
    /\ bpc[b] = "init_load"
    /\ IF ~lib.loadable
       THEN /\ bpc' = [bpc EXCEPT ![b] = Lovely_init_returns(FALSE)]
            /\ initResult' = [initResult EXCEPT ![b] = "Err"]
            /\ UNCHANGED <<built, crashed>>
       ELSE IF from_library(lib).ok
       THEN /\ built' = [built EXCEPT ![b] = <<from_library(lib).tbl>>]
            /\ bpc' = [bpc EXCEPT ![b] = "init_set"]
            /\ UNCHANGED <<initResult, crashed>>
       ELSE /\ BootPanic(b, "fatal_symbol")
            /\ UNCHANGED <<built, initResult>>
    /\ UNCHANGED <<lib, LUA, RUNTIME, hooked, hookInstalls, hostCalls, afterDone, trampoline,
                   luaVars, histVars>>

\* InitSet that stores its table over the one already there
InitSet_replace(b) ==
    /\ ~crashed
    /\ bpc[b] = "init_set"
    /\ LUA' = <<built[b][1]>>
    /\ built' = [built EXCEPT ![b] = <<>>]
    /\ bpc' = [bpc EXCEPT ![b] = Lovely_init_returns(TRUE)]
    /\ initResult' = [initResult EXCEPT ![b] = "Ok"]
    /\ UNCHANGED <<lib, RUNTIME, hooked, hookInstalls, hostCalls, afterDone, trampoline,
                   luaVars, histVars, crashed>>

\* LUA.set(lua_lib).map_err(|_| "LUA already initialized")
InitSet(b) ==
    /\ ~crashed
    /\ bpc[b] = "init_set"
    /\ LUA' = OnceSet(LUA, built[b][1]).cell
    /\ built' = [built EXCEPT ![b] = <<>>]
    /\ bpc' = [bpc EXCEPT ![b] = Lovely_init_returns(OnceSet(LUA, built[b][1]).ok)]
    /\ initResult' = [initResult EXCEPT ![b] =
                         IF OnceSet(LUA, built[b][1]).ok THEN "Ok" ELSE "Err"]
    /\ UNCHANGED <<lib, RUNTIME, hooked, hookInstalls, hostCalls, afterDone, trampoline,
                   luaVars, histVars, crashed>>

\* SetRuntime that stores its runtime whether or not one is already there
SetRuntime_overwrite(b) ==
    /\ ~crashed
    /\ bpc[b] = "set_runtime"
    /\ RUNTIME' = <<b>>
    /\ bpc' = [bpc EXCEPT ![b] = "resolve"]
    /\ UNCHANGED <<lib, LUA, built, hooked, hookInstalls, hostCalls, afterDone, trampoline, initResult,
                   luaVars, histVars, crashed>>

\* SetRuntime that ignores the error of a second set and goes on
SetRuntime_silent(b) ==
    /\ ~crashed
    /\ bpc[b] = "set_runtime"
    /\ RUNTIME' = OnceSet(RUNTIME, b).cell
    /\ bpc' = [bpc EXCEPT ![b] = "resolve"]
    /\ UNCHANGED <<lib, LUA, built, hooked, hookInstalls, hostCalls, afterDone, trampoline, initResult,
                   luaVars, histVars, crashed>>

\* RUNTIME.set(rt).unwrap_or_else(|_| panic!(..))
SetRuntime(b) ==
    /\ ~crashed
    /\ bpc[b] = "set_runtime"
    /\ IF OnceSet(RUNTIME, b).ok
       THEN /\ RUNTIME' = OnceSet(RUNTIME, b).cell
            /\ bpc' = [bpc EXCEPT ![b] = "resolve"]
            /\ UNCHANGED crashed
       ELSE /\ BootPanic(b, "fatal_runtime")
            /\ UNCHANGED RUNTIME
    /\ UNCHANGED <<lib, LUA, built, hooked, hookInstalls, hostCalls, afterDone, trampoline, initResult,
                   luaVars, histVars>>

\* ResolveTarget that goes on to the hook without looking at LUA
ResolveTarget_unchecked(b) ==
    /\ ~crashed
    /\ bpc[b] = "resolve"
    /\ bpc' = [bpc EXCEPT ![b] = "hook"]
    /\ UNCHANGED <<lib, LUA, RUNTIME, built, hooked, hookInstalls, hostCalls,
                   afterDone, trampoline, initResult, luaVars, histVars, crashed>>

\* the hook target is read through LUA.get().unwrap()
ResolveTarget(b) ==
    /\ ~crashed
    /\ bpc[b] = "resolve"
    /\ IF LUA = <<>>
       THEN BootPanic(b, "fatal_lua")
       ELSE /\ bpc' = [bpc EXCEPT ![b] = "hook"]
            /\ UNCHANGED crashed
    /\ UNCHANGED <<lib, LUA, RUNTIME, built, hooked, hookInstalls, hostCalls,
                   afterDone, trampoline, initResult, luaVars, histVars>>

\* what let _ = binds: the value is dropped where it is produced, so the
\* pointers the process holds stay as they were
BindUnderscore(held, v) == held

\* let _ = dobby_rs::hook(target, replacement).unwrap(): the patch is applied
\* and the trampoline handed back, or the platform rejects the patch and the
\* unwrap panics
InstallHook(b) ==
    /\ ~crashed
    /\ bpc[b] = "hook"
    /\ \/ /\ hooked' = TRUE
          /\ hookInstalls' = hookInstalls + 1
          /\ trampoline' = BindUnderscore(trampoline, Trampoline(HookTarget))
          /\ bpc' = [bpc EXCEPT ![b] = "done"]
          /\ UNCHANGED crashed
       \/ /\ BootPanic(b, "fatal_hook")
          /\ UNCHANGED <<hooked, hookInstalls, trampoline>>
    /\ UNCHANGED <<lib, LUA, RUNTIME, built, hostCalls, afterDone, initResult, luaVars,
                   histVars>>

\* the host calls its compile entry point: the patched entry leads to the
\* replacement, the unpatched one to the engine's own implementation
HostCompile ==
    /\ ~crashed
    /\ Len(hostCalls) < MaxHostCalls
    /\ hostCalls' = Append(hostCalls,
            [by |-> IF hooked THEN "replacement" ELSE "original",
             runtime |-> RUNTIME # <<>>, lua |-> LUA # <<>>])
    /\ UNCHANGED <<lib, LUA, RUNTIME, bpc, built, hooked, hookInstalls, afterDone, trampoline, initResult,
                   luaVars, histVars, crashed>>

---------------------------------------------------------------------------
(* Initial states and specifications *)

\* the tables of a fresh interpreter; pre is what the host has put in preload
BaseHeap(pre) ==
    [id \in {"_G", "package", "preload"} |->
        IF id = "_G"
        THEN [k \in Keys |-> IF k = K_package THEN Table("package")
                             ELSE IF k = K_tostring THEN FTostring ELSE Nil]
        ELSE IF id = "package"
        THEN [k \in Keys |-> IF k = K_preload THEN Table("preload") ELSE Nil]
        ELSE [k \in Keys |-> IF k \in Names THEN pre[k] ELSE Nil]]

NoPreload == [k \in Names |-> Nil]

\* the engine thread is between host calls
LuaIdle(h, stk) ==
    /\ heap = h
    /\ stack = stk
    /\ saved = <<>>
    /\ curUp = <<>>
    /\ pc = "idle"
    /\ loc = NoLoc
    /\ log = <<>>
    /\ retvals = <<>>
    /\ entryStack = stk
    /\ entryHeap = h
    /\ ran = 0
    /\ chunkOut = [k \in Names |-> <<>>]
    /\ invCount = [k \in Names |-> 0]
    /\ compileLog = <<>>
    /\ preload0 = h["preload"]
    /\ lastOkSrc = [k \in Names |-> <<>>]

FullLib == [loadable |-> TRUE, exports |-> Required \cup {"luaL_loadbuffer", "luaL_loadbufferx"}]

\* the libraries a host may ship: the full one, one that cannot be loaded,
\* and one that lacks a single required symbol
Libraries ==
    {FullLib, [FullLib EXCEPT !.loadable = FALSE]}
    \cup {[FullLib EXCEPT !.exports = @ \ {s}] : s \in Required}

\* the process before any JNI_OnLoad
Init ==
    /\ lib \in Libraries
    /\ LUA = <<>>
    /\ RUNTIME = <<>>
    /\ bpc = [b \in Boots |-> "start"]
    /\ built = [b \in Boots |-> <<>>]
    /\ hooked = FALSE
    /\ hookInstalls = 0
    /\ hostCalls = <<>>
    /\ afterDone = [b \in Boots |-> FALSE]
    /\ trampoline = <<>>
    /\ initResult = [b \in Boots |-> "none"]
    /\ crashed = FALSE
    /\ LuaIdle(BaseHeap(NoPreload), <<>>)

Next ==
    \/ \E b \in Boots : JNI_start(b)
    \/ \E b \in Boots : InitLoad(b)
    \/ \E b \in Boots : InitSet(b)
    \/ \E b \in Boots : SetRuntime(b)
    \/ \E b \in Boots : ResolveTarget(b)
    \/ \E b \in Boots : InstallHook(b)
    \/ HostCompile

Spec == Init /\ [][Next]_vars

\* the process after one JNI_OnLoad has returned
Booted ==
    /\ lib = FullLib
    /\ LUA = <<from_library(FullLib).tbl>>
    /\ RUNTIME = <<1>>
    /\ bpc = [b \in Boots |-> IF b = 1 THEN "done" ELSE "start"]
    /\ built = [b \in Boots |-> <<>>]
    /\ hooked = TRUE
    /\ hookInstalls = 1
    /\ hostCalls = <<>>
    /\ afterDone = [b \in Boots |-> FALSE]
    /\ trampoline = <<>>
    /\ initResult = [b \in Boots |-> IF b = 1 THEN "Ok" ELSE "none"]
    /\ crashed = FALSE

RECURSIVE SeqsUpTo(_, _)
SeqsUpTo(S, n) ==
    IF n = 0 THEN {<<>>}
    ELSE SeqsUpTo(S, n - 1) \cup {Append(q, x) : q \in SeqsUpTo(S, n - 1), x \in S}

\* a booted process whose host has some values on the stack and may have
\* registered loaders of its own
InitInject ==
    /\ Booted
    /\ \E pre \in [Names -> {Nil, HostLoader}], stk \in SeqsUpTo({Num(7)}, MaxBase) :
          LuaIdle(BaseHeap(pre), stk)

NextInject ==
    \/ \E name \in Names \cup {NameNul}, buffer \in Sources : HostLoadModule(name, buffer)
    \/ LM_cstr
    \/ LM_gettop
    \/ LM_getpackage
    \/ LM_getpreload
    \/ LM_fieldindex
    \/ LM_loadbuffer
    \/ LM_pcall
    \/ LM_pushcclosure
    \/ LM_setfield
    \/ LM_settop
    \/ LM_return
    \/ \E k \in Names : HostRequire(k)
    \/ IC_pushvalue
    \/ IC_return
    \/ HostResume

SpecInject == InitInject /\ [][NextInject]_vars


---------------------------------------------------------------------------
(* Properties of load_module and lua_identity_closure (SpecInject) *)

\* the call of load_module that is returning failed: the protected call
\* reported an error
LoadFailed == pc = "lm_return" /\ loc.lua_pcall_return # 0
LoadSucceeded == pc = "lm_return" /\ loc.lua_pcall_return = 0
InClosure == pc \in {"ic_pushvalue", "ic_return", "ic_done"}

\* C1: when load_module returns, on the success path and on either failure
\* path, the operand stack is as deep as it was when load_module was entered,
\* which is the depth it recorded in stack_top.
StackBalance ==
    pc = "lm_return" =>
        /\ lua_gettop(stack) = Len(entryStack)
        /\ loc.stack_top = Len(entryStack)

\* a failing call returns over a non-empty host stack, after an earlier call
\* on the same interpreter registered a module
StackBalanceWitness ==
    /\ LoadFailed
    /\ Len(entryStack) > 0
    /\ \E k \in Names : IsCClosure(heap["preload"][k])

\* C2: after a load_module whose source compiles and runs without error,
\* preload[name] is the native closure lua_identity_closure holding the
\* chunk's (first) result as its only upvalue, and an invocation of that
\* entry hands the host exactly that value.
SuccessRegistration ==
    /\ (pc = "lm_return" /\ Compiles(loc.buffer) /\ ~RunErrors(loc.buffer)) =>
          heap["preload"][loc.name] =
              CClosure("lua_identity_closure", Adjust(RunValues(loc.buffer), 1))
    /\ pc = "ic_done" => retvals = Adjust(chunkOut[loc.name], 1)

\* "return 1" was loaded as mod_a and the host's call of preload.mod_a got 1
SuccessRegistrationWitness ==
    /\ pc = "ic_done"
    /\ loc.name = NameA
    /\ chunkOut[NameA] = <<Num(1)>>
    /\ retvals = <<Num(1)>>

\* C3: a load_module that fails (compile error or runtime error) returns
\* without having crashed, with preload[name] as it was on entry (present
\* and unchanged, or still absent) and with the error object gone from the
\* stack.
FailureNonRegistration ==
    /\ LoadFailed =>
          /\ heap["preload"][loc.name] = entryHeap["preload"][loc.name]
          /\ stack = entryStack
          /\ ~crashed
    /\ (pc \in {"lm_settop", "lm_return"} /\ loc.lua_pcall_return # 0) => ~crashed
    /\ pc = "lm_return" => (loc.lua_pcall_return # 0 <=>
                               (~Compiles(loc.buffer) \/ RunErrors(loc.buffer)))

\* a source with a syntax error was loaded under a name the host had
\* registered a loader for
FailureNonRegistrationWitness ==
    /\ LoadFailed
    /\ ~Compiles(loc.buffer)
    /\ entryHeap["preload"][loc.name] = HostLoader

\* C4: a successful load_module runs the chunk exactly once; an invocation of
\* the registered closure runs no chunk, leaves the tables (and so the
\* closure and its upvalue) as they are, and returns exactly one value, the
\* captured one, however many invocations came before.
IdentityIdempotence ==
    /\ LoadSucceeded => ran = 1
    /\ InClosure => ran = 0 /\ heap = entryHeap
    /\ pc = "ic_done" =>
          /\ Len(retvals) = 1
          /\ retvals = heap["preload"][loc.name].up
          /\ retvals = Adjust(chunkOut[loc.name], 1)

\* the second invocation of one registered closure has returned
IdentityIdempotenceWitness ==
    /\ pc = "ic_done"
    /\ invCount[loc.name] = 2
    /\ retvals = <<Num(2)>>


\* what scripts pass to print: strings (ASCII, a valid two-byte sequence, a
\* three-byte sequence cut short and followed by an invalid byte), a number,
\* a boolean, and an object whose __tostring returns a table
PrintVals ==
    {Str(<<97>>), Num(1), Bool(TRUE), Str(<<195, 169>>), Str(<<226, 130, 255>>),
     Obj(Table("_G"))}

InitPrint ==
    /\ Booted
    /\ LuaIdle(BaseHeap(NoPreload), <<>>)

NextPrint ==
    \/ \E args \in SeqsUpTo(PrintVals, MaxArgs) : HostPrint(args)
    \/ OP_gettop
    \/ OP_loop
    \/ OP_getfield
    \/ OP_pushvalue
    \/ OP_call
    \/ OP_tolstring
    \/ OP_settop
    \/ OP_log
    \/ OP_return
    \/ HostResume

SpecPrint == InitPrint /\ [][NextPrint]_vars

---------------------------------------------------------------------------
(* Properties of override_print (SpecPrint) *)

\* the arguments of the running print call
PrintArgs == entryStack

\* every argument's tostring result is a string
StringResults == \A j \in 1..Len(PrintArgs) : IsString(Tostring(PrintArgs[j]))

PrintStackDiscipline ==
    /\ pc = "op_loop" =>
          /\ lua_gettop(stack) = loc.argc
          /\ stack = PrintArgs
          /\ Len(loc.out) = loc.i - 1
    /\ pc \in {"op_getfield", "op_pushvalue", "op_call", "op_tolstring", "op_settop",
               "op_log", "op_return"} =>
          /\ loc.argc = Len(PrintArgs)
          /\ SubSeq(stack, 1, loc.argc) = PrintArgs
    /\ pc = "op_call" => stack[Len(stack)] = PrintArgs[loc.i]
    /\ pc \in {"op_tolstring", "op_settop"} =>
          stack[Len(stack)] = Tostring(PrintArgs[loc.i])
    /\ pc \in {"op_return", "op_done"} => loc.nret = 0
    /\ pc = "op_done" => retvals = <<>>

\* the loop is at its head after the second of three iterations
PrintStackDisciplineWitness ==
    /\ pc = "op_loop"
    /\ loc.argc = 3
    /\ loc.i = 3
    /\ Len(stack) = 3

---------------------------------------------------------------------------
(* Properties of the bootstrap (Spec) *)

\* the invocations whose RUNTIME.set returned Ok
PastSet == {b \in Boots : bpc[b] \in {"resolve", "hook", "done", "fatal_lua", "fatal_hook"}}
\* the invocations that have run their RUNTIME.set
TriedSet == PastSet \cup {b \in Boots : bpc[b] = "fatal_runtime"}

RaceFreeInitialization ==
    /\ Cardinality(PastSet) <= 1
    /\ RUNTIME = <<>> => TriedSet = {}
    /\ RUNTIME # <<>> => PastSet = {RUNTIME[1]}
    /\ \A b \in TriedSet \ PastSet : bpc[b] = "fatal_runtime" /\ crashed
    /\ hookInstalls <= 1

\* two invocations ran side by side: one set RUNTIME and has not returned
\* yet, the other panicked at its own RUNTIME.set
RaceFreeInitializationWitness ==
    \E a \in Boots, b \in Boots :
        /\ bpc[a] = "hook"
        /\ bpc[b] = "fatal_runtime"
        /\ ~afterDone[b]
        /\ RUNTIME = <<a>>

\* C9: the hook is installed at most once, and exactly once when an
\* invocation has returned; it is installed, and the install step is reached,
\* only with LUA and RUNTIME set, an invocation that finds LUA unset at the
\* step before panics there; and every host compile call the replacement
\* handled was made with the hook installed and RUNTIME and LUA set.
HookInstallOrdering ==
    /\ hookInstalls <= 1
    /\ (\E b \in Boots : bpc[b] = "done") => hookInstalls = 1
    /\ hooked <=> hookInstalls = 1
    /\ hooked => LUA # <<>> /\ RUNTIME # <<>>
    /\ \A b \in Boots : bpc[b] = "hook" => LUA # <<>> /\ RUNTIME = <<b>>
    /\ \A b \in Boots : bpc[b] = "fatal_lua" => LUA = <<>> /\ ~hooked /\ crashed
    /\ \A j \in 1..Len(hostCalls) :
          hostCalls[j].by = "replacement" =>
              hooked /\ hostCalls[j].runtime /\ hostCalls[j].lua

\* the host compiled once before the hook was installed and once after
HookInstallOrderingWitness ==
    /\ Len(hostCalls) = 2
    /\ hostCalls[1].by = "original"
    /\ hostCalls[2].by = "replacement"
    /\ hookInstalls = 1

\* C10: LUA, and every LuaLib built on the way to it, holds all 14 entry
\* points or does not exist; when the library lacks a required symbol the
\* invocation panics in from_library and LUA stays unset, as it does when the
\* library cannot be loaded.
NoPartialSymbolTable ==
    /\ LUA # <<>> => DOMAIN LUA[1] = Required /\ Cardinality(DOMAIN LUA[1]) = 14
    /\ \A b \in Boots : built[b] # <<>> => DOMAIN built[b][1] = Required
    /\ ~(Required \subseteq lib.exports) => LUA = <<>>
    /\ ~lib.loadable => LUA = <<>>
    /\ \A b \in Boots : bpc[b] = "fatal_symbol" =>
          /\ ~(Required \subseteq lib.exports)
          /\ LUA = <<>>
          /\ crashed
    /\ \A b \in Boots : bpc[b] \in {"init_set"} => Required \subseteq lib.exports

\* the library lacks lua_isstring, the last symbol looked up, and the
\* invocation has panicked with nothing published
NoPartialSymbolTableWitness ==
    \E b \in Boots :
        /\ bpc[b] = "fatal_symbol"
        /\ lib.exports = FullLib.exports \ {"lua_isstring"}
        /\ LUA = <<>>


---------------------------------------------------------------------------
(* Properties of the trampoline and of the compile callback *)

\* C11 as stated: once the hook is installed the process holds exactly the
\* trampoline that install produced (the relocated original of the patched
\* entry), and every compile call load_module makes goes through it.
TrampolineCapture ==
    /\ hooked => trampoline = <<Trampoline(HookTarget)>>
    /\ \A j \in 1..Len(compileLog) : compileLog[j].callee = Trampoline(HookTarget)

\* the positions of load_module after its compile call
AfterCompile == {"lm_pcall", "lm_pushcclosure", "lm_setfield", "lm_settop", "lm_return"}
\* the positions of load_module after its C strings are built
AfterCstr == {"lm_gettop", "lm_getpackage", "lm_getpreload", "lm_fieldindex",
              "lm_loadbuffer"} \cup AfterCompile
InLoadModule == pc \in {"lm_cstr"} \cup AfterCstr

\* C13: with the hook installed, a call of load_module makes exactly one
\* compile call, that call arrives in the engine's own compile code and not in
\* the hook replacement, and what it leaves on the stack is what the engine's
\* compile function produces for the buffer; load_module is never entered
\* again from inside its own compile call.
NoHookReentry ==
    /\ hooked
    /\ Len(compileLog) <= 1
    /\ \A j \in 1..Len(compileLog) : compileLog[j].entered = "original"
    /\ InLoadModule => (Len(compileLog) = 1 <=> pc \in AfterCompile)
    /\ pc = "lm_pcall" =>
          stack = luaL_loadbufferx(SubSeq(stack, 1, Len(stack) - 1), loc.buffer,
                                   Len(loc.buffer), At \o loc.name).stack

\* a successful load_module is returning under the installed hook after its
\* one compile call, which the engine's own code served
NoHookReentryWitness ==
    /\ LoadSucceeded
    /\ hooked
    /\ hookInstalls = 1
    /\ Len(compileLog) = 1
    /\ compileLog[1].entered = "original"
    /\ compileLog[1].callee = Export(RecallTarget)

---------------------------------------------------------------------------
(* Properties of the symbol table cell *)

\* the calls of init_lua_library that returned Ok, and those that returned Err
InitOk == {b \in Boots : initResult[b] = "Ok"}
InitErr == {b \in Boots : initResult[b] = "Err"}

\* C12: at most one call of init_lua_library ever returns Ok, and LUA is set
\* exactly when one has; a call whose LUA.set runs with LUA already set
\* returns Err and leaves LUA as it is; and once LUA is set no step of any
\* call, sequential or interleaved, changes it.
SymbolTableSetOnce ==
    /\ [](/\ Cardinality(InitOk) <= 1
          /\ LUA # <<>> <=> InitOk # {}
          /\ LUA # <<>> => LUA[1] = from_library(lib).tbl
          /\ (InitErr # {} /\ lib.loadable) => LUA # <<>>)
    /\ [][LUA # <<>> => LUA' = LUA]_vars
    /\ [][\A b \in Boots :
             (LUA # <<>> /\ bpc[b] = "init_set" /\ bpc'[b] # "init_set") =>
                 initResult'[b] = "Err"]_vars

\* two calls ran side by side: one stored its table and returned Ok, the
\* other found LUA set and returned Err
SymbolTableSetOnceWitness ==
    \E a \in Boots, b \in Boots :
        /\ initResult[a] = "Ok"
        /\ initResult[b] = "Err"
        /\ ~afterDone[b]
        /\ lib.loadable
        /\ LUA # <<>>

---------------------------------------------------------------------------
(* Further properties of load_module (SpecInject) *)

\* C14: load_module calls the compile function exactly once, with the whole
\* buffer, its exact length in bytes, the display name "@" followed by the
\* name, and a null mode, so a chunk that compiles carries that display name;
\* the key written on success is the name itself, and no key with the "@"
\* prefix appears in package.preload.
ChunkNaming ==
    /\ (InLoadModule /\ pc \notin AfterCompile) => compileLog = <<>>
    /\ pc \in AfterCompile =>
          /\ Len(compileLog) = 1
          /\ compileLog[1].buf = loc.buffer
          /\ compileLog[1].sz = Len(loc.buffer)
          /\ compileLog[1].nm = At \o loc.name
          /\ compileLog[1].mode = "null"
    /\ (pc = "lm_pcall" /\ Compiles(loc.buffer)) =>
          stack[Len(stack)] = Chunk(loc.buffer, At \o loc.name)
    /\ LoadSucceeded =>
          /\ IsCClosure(heap["preload"][loc.name])
          /\ TableGet(heap, Table("preload"), At \o loc.name) = Nil
    /\ DOMAIN heap["preload"] = Keys

\* "return 1" was loaded as mod_b: compiled under "@mod_b", registered under
\* "mod_b"
ChunkNamingWitness ==
    /\ LoadSucceeded
    /\ loc.name = NameB
    /\ compileLog = <<[buf |-> SrcRet1, sz |-> 8, nm |-> <<64, 109, 111, 100, 95, 98>>,
                       mode |-> "null", callee |-> Export(RecallTarget),
                       entered |-> "original"]>>
    /\ IsCClosure(heap["preload"][NameB])

\* C15: when the protected call succeeded exactly one value lies above the
\* preload table, so the closure is created over one value and the stack is
\* field_index + 1 deep before and after; a chunk that returns nothing
\* registers a closure over nil, one that returns several values a closure
\* over the first, and that is all an invocation hands back.
SingleResult ==
    /\ pc \in {"lm_pushcclosure", "lm_setfield"} =>
          /\ loc.lua_pcall_return = 0
          /\ lua_gettop(stack) = loc.field_index + 1
          /\ stack[loc.field_index] = Table("preload")
    /\ pc = "lm_pushcclosure" =>
          stack[Len(stack)] = Adjust(chunkOut[loc.name], 1)[1]
    /\ pc = "lm_setfield" =>
          stack[Len(stack)] =
              CClosure("lua_identity_closure", Adjust(chunkOut[loc.name], 1))
    /\ LoadSucceeded =>
          /\ chunkOut[loc.name] = RunValues(loc.buffer)
          /\ Len(heap["preload"][loc.name].up) = 1
          /\ heap["preload"][loc.name].up[1] =
                 IF RunValues(loc.buffer) = <<>> THEN Nil ELSE RunValues(loc.buffer)[1]
    /\ pc = "ic_done" =>
          retvals = <<IF chunkOut[loc.name] = <<>> THEN Nil ELSE chunkOut[loc.name][1]>>

\* the closure of a chunk that returned 1 and 2 has handed back 1, while the
\* closure registered for the empty chunk holds nil
SingleResultWitness ==
    /\ pc = "ic_done"
    /\ chunkOut[loc.name] = <<Num(1), Num(2)>>
    /\ retvals = <<Num(1)>>
    /\ \E k \in Names :
          /\ lastOkSrc[k] = <<SrcEmpty>>
          /\ heap["preload"][k] = CClosure("lua_identity_closure", <<Nil>>)

\* what package.preload[m] has to be after the calls so far: the closure over
\* the (first) result of the last source that compiled and ran under the name
\* m, or the entry from before the first call
ExpectedEntry(m) ==
    IF lastOkSrc[m] = <<>> THEN preload0[m]
    ELSE CClosure("lua_identity_closure", Adjust(RunValues(lastOkSrc[m][1]), 1))

\* C16: between calls, and when a failing call returns, package.preload[m]
\* is for every name m the closure of the most recent successful call for m,
\* or what it was before the first call when none succeeded; a successful
\* call returns with the closure of its own source in place.
LastSuccessfulInjectWins ==
    /\ (~InLoadModule \/ LoadFailed) =>
          \A m \in Names : heap["preload"][m] = ExpectedEntry(m)
    /\ LoadSucceeded =>
          /\ heap["preload"][loc.name] =
                 CClosure("lua_identity_closure", Adjust(RunValues(loc.buffer), 1))
          /\ \A m \in Names \ {loc.name} : heap["preload"][m] = ExpectedEntry(m)

\* over a loader of the host, mod_a was loaded with a source returning 1, then
\* with one returning 2, and a failing third call is returning
LastSuccessfulInjectWinsWitness ==
    /\ LoadFailed
    /\ loc.name = NameA
    /\ preload0[NameA] = HostLoader
    /\ lastOkSrc[NameA] = <<SrcRet2>>
    /\ heap["preload"][NameA] = CClosure("lua_identity_closure", <<Num(2)>>)

\* C17: at every position of load_module the tables _G and package and every
\* entry of package.preload other than the one under the name are as they
\* were on entry, no key is added, and the slots of the stack below the entry
\* depth hold what they held on entry.
InjectFrame ==
    InLoadModule =>
        /\ heap["_G"] = entryHeap["_G"]
        /\ heap["package"] = entryHeap["package"]
        /\ DOMAIN heap["preload"] = DOMAIN entryHeap["preload"]
        /\ \A k \in DOMAIN heap["preload"] \ {loc.name} :
              heap["preload"][k] = entryHeap["preload"][k]
        /\ lua_gettop(stack) >= Len(entryStack)
        /\ SubSeq(stack, 1, Len(entryStack)) = entryStack

\* mod_a was registered over a host value on the stack while the host's
\* loader for mod_b stayed in place
InjectFrameWitness ==
    /\ LoadSucceeded
    /\ loc.name = NameA
    /\ heap["preload"][NameA] # entryHeap["preload"][NameA]
    /\ entryHeap["preload"][NameB] = HostLoader
    /\ heap["preload"][NameB] = HostLoader
    /\ entryStack = <<Num(7)>>

\* C18: a name or a buffer with an interior NUL byte never gets past the
\* construction of the C strings: load_module panics there with the stack and
\* the tables as on entry, before it reads the depth, compiles or pushes
\* anything; so at the conversion on the success branch the name has no
\* NUL, and nothing panics after the first stack operation.
NulAbortPrecedesMutation ==
    /\ pc \in AfterCstr => CStringOk(loc.name) /\ CStringOk(loc.buffer)
    /\ (pc = "lm_cstr" /\ crashed) =>
          /\ ~CStringOk(loc.name) \/ ~CStringOk(loc.buffer)
          /\ stack = entryStack
          /\ heap = entryHeap
          /\ compileLog = <<>>
          /\ ran = 0
    /\ crashed => pc = "lm_cstr"

\* after an earlier call registered a module, a call with a NUL in the name
\* and a sound buffer has panicked over a non-empty host stack
NulAbortPrecedesMutationWitness ==
    /\ crashed
    /\ pc = "lm_cstr"
    /\ loc.name = NameNul
    /\ CStringOk(loc.buffer)
    /\ Len(entryStack) = 1
    /\ \E k \in Names : IsCClosure(heap["preload"][k])

---------------------------------------------------------------------------
(* The routines on a process whose symbol table may not be there (SpecGuard) *)

\* a process in which no JNI_OnLoad has run
Unbooted ==
    /\ lib = FullLib
    /\ LUA = <<>>
    /\ RUNTIME = <<>>
    /\ bpc = [b \in Boots |-> "start"]
    /\ built = [b \in Boots |-> <<>>]
    /\ hooked = FALSE
    /\ hookInstalls = 0
    /\ hostCalls = <<>>
    /\ afterDone = [b \in Boots |-> FALSE]
    /\ trampoline = <<>>
    /\ initResult = [b \in Boots |-> "none"]
    /\ crashed = FALSE

\* the three routines are public: an embedder can call load_module, and can
\* have registered override_print and lua_identity_closure through the
\* engine's API, whether or not init_lua_library has run
InitGuard ==
    /\ Booted \/ Unbooted
    /\ \E pre \in [Names -> {Nil, CClosure("lua_identity_closure", <<Num(7)>>)}],
          stk \in SeqsUpTo({Num(7)}, MaxBase) :
          LuaIdle(BaseHeap(pre), stk)

NextGuard ==
    \/ \E buffer \in {SrcRet1, SrcSyntax} : HostLoadModule(NameA, buffer)
    \/ LM_cstr
    \/ LM_gettop
    \/ LM_getpackage
    \/ LM_getpreload
    \/ LM_fieldindex
    \/ LM_loadbuffer
    \/ LM_pcall
    \/ LM_pushcclosure
    \/ LM_setfield
    \/ LM_settop
    \/ LM_return
    \/ \E k \in Names : HostRequire(k)
    \/ IC_pushvalue
    \/ IC_return
    \/ \E args \in SeqsUpTo({Num(1), Obj(Table("_G"))}, 1) : HostPrint(args)
    \/ OP_gettop
    \/ OP_loop
    \/ OP_getfield
    \/ OP_pushvalue
    \/ OP_call
    \/ OP_tolstring
    \/ OP_settop
    \/ OP_log
    \/ OP_return
    \/ HostResume

SpecGuard == InitGuard /\ [][NextGuard]_vars

\* the positions at which a routine is about to call its first generated
\* primitive: lua_gettop in load_module and override_print, lua_pushvalue in
\* lua_identity_closure
FirstPrimitive == {"lm_gettop", "ic_pushvalue", "op_gettop"}

\* C19: while LUA is unset no routine gets past its first generated
\* primitive: the step at that position is the panic, and it changes neither
\* the stack nor the tables; so the stack is what the routine was entered
\* with, package.preload is what it was at the start, nothing was compiled or
\* run, no line was logged and nothing was returned.
UninitialisedTableGuard ==
    /\ [](LUA = <<>> =>
            /\ pc \in {"idle", "lm_cstr"} \cup FirstPrimitive
            /\ stack = entryStack
            /\ heap = entryHeap
            /\ heap["preload"] = preload0
            /\ compileLog = <<>>
            /\ ran = 0
            /\ log = <<>>
            /\ retvals = <<>>
            /\ crashed => pc \in FirstPrimitive)
    /\ [][(LUA = <<>> /\ pc \in FirstPrimitive) =>
             (crashed' /\ stack' = stack /\ heap' = heap /\ pc' = pc)]_vars

\* load_module was called on a process without a symbol table and has
\* panicked in lua_gettop, over the host's value on the stack
UninitialisedTableGuardWitness ==
    /\ LUA = <<>>
    /\ crashed
    /\ pc = "lm_gettop"
    /\ stack = <<Num(7)>>
    /\ loc.name = NameA

============================================================================
